---- MODULE Spec2Model ----
(***************************************************************************)
(* mm1-unarchive: the ASH0 bundle splitter (splitAsh0Bundle), the          *)
(* repackager (convertLevelData) and the record loop (extract_file/main),  *)
(* for the two programs of the repository: src/src/main.go and             *)
(* src/unnamed/part_000.                                                   *)
(*                                                                         *)
(* A byte is a one-character string, a Go []byte a sequence of bytes.  Go  *)
(* indexes from 0 and TLA+ sequences from 1: data[i] in Go is data[i + 1]  *)
(* here.  Go slices distinguish nil from empty, so a slice returned by the *)
(* external decoder is a record [isNil, bytes].                            *)
(***************************************************************************)
EXTENDS Integers, Sequences, FiniteSets, TLC

VARIABLES
    build,   \* which program runs: "main.go" or "part_000"
    data,    \* splitter run: the buffer handed to splitAsh0Bundle
    parts,   \* splitter run: how the buffer was put together (pre, segs)
    res,     \* splitter run: the outcome of splitAsh0Bundle(data)
    pc,      \* record loop: "loop", "done", "fatal", "exit" or "panic"
    n,       \* record loop: records read so far
    bar,     \* record loop: the progress bar's count
    files,   \* record loop: output/<id>.tar.zst for each id
    last     \* record loop: the record of the latest iteration and its call

vars == <<build, data, parts, res, pc, n, bar, files, last>>

splitVars == <<data, parts, res>>
loopVars  == <<pc, n, bar, files, last>>

----------------------------------------------------------------------------
(* Bounds and input alphabets *)

\* longest last segment (or marker-free buffer) drawn for the splitter
MaxTail == 3
\* records one archive holds at most
MaxRecords == 2

Builds == {"main.go", "part_000"}

\* the bytes buffers are drawn from: the marker's own bytes and one other
Bytes == {"A", "S", "H", "0", "x"}

----------------------------------------------------------------------------
(* Byte-sequence helpers *)

\* Go's data[lo:hi], 0-based and half-open
slice(d, lo, hi) == SubSeq(d, lo + 1, hi)

\* strings.Contains
Contains(s, sub) ==
    \E i \in 1..(Len(s) - Len(sub) + 1) : SubSeq(s, i, i + Len(sub) - 1) = sub

RECURSIVE Concat(_)
Concat(ss) == IF ss = <<>> THEN <<>> ELSE Head(ss) \o Concat(Tail(ss))

\* the 4-byte magic 'A' 'S' 'H' '0' the scan compares against
Marker == <<"A", "S", "H", "0">>

----------------------------------------------------------------------------
(* splitAsh0Bundle *)

\* A variant of the && chain that forgets to compare the last byte.
RECURSIVE matchAt_noZero(_, _, _)
matchAt_noZero(d, i, j) ==
    IF j = Len(Marker) - 1 THEN [m |-> "match", read |-> i + j - 1]
    ELSE IF i + j >= Len(d) THEN [m |-> "oob", read |-> i + j]
    ELSE IF d[i + j + 1] = Marker[j + 1] THEN matchAt_noZero(d, i, j + 1)
    ELSE [m |-> "nomatch", read |-> i + j]

\* The condition data[i] == 'A' && data[i+1] == 'S' && data[i+2] == 'H' &&
\* data[i+3] == '0', evaluated left to right from its j-th conjunct.  Each
\* conjunct indexes d without a bounds check of its own: an index >= len(d)
\* is Go's "index out of range" panic.  read is the last index it touched.
RECURSIVE matchAt(_, _, _)
matchAt(d, i, j) ==
    IF j = Len(Marker) THEN [m |-> "match", read |-> i + j - 1]
    ELSE IF i + j >= Len(d) THEN [m |-> "oob", read |-> i + j]
    ELSE IF d[i + j + 1] = Marker[j + 1] THEN matchAt(d, i, j + 1)
    ELSE [m |-> "nomatch", read |-> i + j]

\* A variant of the loop that closes a segment one byte late.
RECURSIVE scan_late(_, _, _, _)
scan_late(d, i, start, splitData) ==
    IF ~(i < Len(d)) THEN
        [kind |-> "ok", start |-> start, splitData |-> splitData, read |-> Len(d) - 1]
    ELSE LET c == matchAt(d, i, 0) IN
        IF c.m = "oob" THEN
            [kind |-> "panic", start |-> start, splitData |-> splitData, read |-> c.read]
        ELSE IF c.m = "match" THEN
            scan_late(d, i + 1, i,
                 IF start # -1 THEN Append(splitData, slice(d, start, i + 1))
                 ELSE splitData)
        ELSE scan_late(d, i + 1, start, splitData)

\* The for loop, from index i with the locals start and splitData.
RECURSIVE scan(_, _, _, _)
scan(d, i, start, splitData) ==
    IF ~(i < Len(d)) THEN
        [kind |-> "ok", start |-> start, splitData |-> splitData, read |-> Len(d) - 1]
    ELSE LET c == matchAt(d, i, 0) IN
        IF c.m = "oob" THEN
            [kind |-> "panic", start |-> start, splitData |-> splitData, read |-> c.read]
        ELSE IF c.m = "match" THEN
            scan(d, i + 1, i,
                 IF start # -1 THEN Append(splitData, slice(d, start, i))
                 ELSE splitData)
        ELSE scan(d, i + 1, start, splitData)

\* A variant without the start == -1 check whose final slice starts at 0.
splitAsh0Bundle_whole(d) ==
    LET r == scan(d, 0, -1, <<>>) IN
    IF r.kind = "panic" THEN [kind |-> "panic", splitData |-> <<>>, read |-> r.read]
    ELSE [kind |-> "ok", read |-> r.read,
          splitData |-> Append(r.splitData,
                               slice(d, IF r.start = -1 THEN 0 ELSE r.start, Len(d)))]

\* src/src/main.go: a buffer without a marker ends the process (os.Exit(1)).
splitAsh0Bundle(d) ==
    LET r == scan(d, 0, -1, <<>>) IN
    IF r.kind = "panic" THEN [kind |-> "panic", splitData |-> <<>>, read |-> r.read]
    ELSE IF r.start = -1 THEN [kind |-> "exit", splitData |-> <<>>, read |-> r.read]
    ELSE [kind |-> "ok", read |-> r.read,
          splitData |-> Append(r.splitData, slice(d, r.start, Len(d)))]

\* src/unnamed/part_000: no check; data[start:] with start = -1 is Go's
\* "slice bounds out of range" panic.
splitAsh0Bundle_part000(d) ==
    LET r == scan(d, 0, -1, <<>>) IN
    IF r.kind = "panic" THEN [kind |-> "panic", splitData |-> <<>>, read |-> r.read]
    ELSE IF r.start = -1 THEN [kind |-> "panic", splitData |-> <<>>, read |-> r.read]
    ELSE [kind |-> "ok", read |-> r.read,
          splitData |-> Append(r.splitData, slice(d, r.start, Len(d)))]

\* the splitter of the running program
split(b, d) == IF b = "main.go" THEN splitAsh0Bundle(d) ELSE splitAsh0Bundle_part000(d)

----------------------------------------------------------------------------
(* convertLevelData *)

\* the entry names with the two .cdt slots exchanged
fileNames_swapped == <<"thumbnail0.tnl", "course_data_sub.cdt", "course_data.cdt", "thumbnail1.tnl">>

\* the fixed entry names, in slot order
fileNames == <<"thumbnail0.tnl", "course_data.cdt", "course_data_sub.cdt", "thumbnail1.tnl">>

\* A slice the external decoder returns: nil, or a (possibly empty) buffer.
Nil == [isNil |-> TRUE, bytes |-> <<>>]
NonNil(b) == [isNil |-> FALSE, bytes |-> b]

\* ash0.Decompress is an external, opaque library call: what it returns for
\* the i-th segment (0-based) is the environment's choice dec.
Decompress(dec, i) == dec[i + 1]

\* bufio.Reader.ReadLine on the whole payload: the bytes before the first
\* "\n" (a "\r" before it dropped), io.EOF when there is nothing to read.
\* Lines here are shorter than bufio's 4096-byte buffer, so none is cut.
ReadLine(d) ==
    IF Len(d) = 0 THEN [err |-> "EOF", line |-> <<>>]
    ELSE LET nls == {i \in 1..Len(d) : d[i] = "\n"}
             end == IF nls = {} THEN Len(d)
                    ELSE (CHOOSE i \in nls : \A j \in nls : i <= j) - 1
             cut == IF nls # {} /\ end >= 1 /\ d[end] = "\r" THEN end - 1 ELSE end
         IN [err |-> "nil", line |-> SubSeq(d, 1, cut)]

\* os.Create succeeded: the file exists and is empty
Created == [exists |-> TRUE, entries |-> <<>>, flushed |-> FALSE]
NoFile == [exists |-> FALSE, entries |-> <<>>, flushed |-> FALSE]

\* the I/O calls of one conversion, in order: os.Create (1), zstd.NewWriter
\* (2), then tarWriter.WriteHeader and tarWriter.Write for each entry
IOCalls == 2 + 2 * Len(fileNames)
headerCall(i) == 3 + 2 * i
writeCall(i) == 4 + 2 * i

\* the deferred calls run when the function returns or panics: last first
RECURSIVE runDefers(_)
runDefers(defers) ==
    IF defers = <<>> THEN <<>>
    ELSE <<defers[Len(defers)]>> \o runDefers(SubSeq(defers, 1, Len(defers) - 1))

\* what is on disk once the writers are closed in closeLog's order: the tar
\* data reaches the file when tar and zstd are closed before the file is
onDisk(entries, closeLog) ==
    [exists |-> TRUE, entries |-> entries,
     flushed |-> closeLog = <<"tar", "zst", "file">>]

\* The loop over fileNames from index i; failAt is the I/O call that fails
\* (0: none).  decoded logs each segment handed to the decoder and its answer.
RECURSIVE writeEntries(_, _, _, _, _, _)
writeEntries(i, splitData, dec, failAt, entries, decoded) ==
    IF i = Len(fileNames) THEN
        [err |-> "nil", entries |-> entries, decoded |-> decoded]
    ELSE
        LET decompressed == Decompress(dec, i)
            log == Append(decoded, [seg |-> splitData[i + 1], out |-> decompressed])
            hdr == [name |-> fileNames[i + 1], size |-> Len(decompressed.bytes),
                    content |-> <<>>, written |-> FALSE]
        IN  IF decompressed = Nil THEN
                [err |-> "failed to decompress", entries |-> entries, decoded |-> log]
            ELSE IF failAt = headerCall(i) THEN
                [err |-> "io", entries |-> entries, decoded |-> log]
            ELSE IF failAt = writeCall(i) THEN
                [err |-> "io", entries |-> Append(entries, hdr), decoded |-> log]
            ELSE writeEntries(i + 1, splitData, dec, failAt,
                     Append(entries, [hdr EXCEPT !.content = decompressed.bytes,
                                                 !.written = TRUE]),
                     log)

----------------------------------------------------------------------------
(* Inputs *)

\* one more marker than a well-formed bundle has
MaxSegments == Len(fileNames) + 1

\* bytes before the first marker
Pres == {<<>>, <<"x">>}

\* the segments before the last: empty, plain, and ending in a marker prefix
MidSegs == {<<>>, <<"x">>, <<"A", "S", "H">>}

\* the last segment (or a whole marker-free buffer): every string to MaxTail
Tails == UNION {[1..k -> Bytes] : k \in 0..MaxTail}

\* pre, then each segment behind a marker of its own
Payload(p) == p.pre \o Concat([j \in 1..Len(p.segs) |-> Marker \o p.segs[j]])

\* what the decoder may answer for one segment: nil, empty, or some bytes
DecOut == {Nil, NonNil(<<>>), NonNil(<<"d">>)}
Decoders == [1..Len(fileNames) -> DecOut]

\* what surrounds one conversion: the decoder's answers and the I/O call that
\* fails (0: none); an I/O failure is drawn with a decoder that answers bytes
Envs ==
    {[dec |-> dec, failAt |-> 0] : dec \in Decoders}
        \cup {[dec |-> [k \in 1..Len(fileNames) |-> NonNil(<<"d">>)], failAt |-> f] :
                 f \in 1..IOCalls}

RecordTypes == {"response", "request"}
Ids == {"a", "b"}

\* the bundles of the record loop: no marker, one segment too few, four, one
\* too many, and four with the buffer ending in 'A'; the j-th segment is j
\* bytes long
Plain(k) == [j \in 1..k |-> [i \in 1..j |-> "x"]]
LoopSegs ==
    {Plain(k) : k \in {0} \cup ((Len(fileNames) - 1)..MaxSegments)}
        \cup {Append(Plain(Len(fileNames) - 1), <<"A">>)}

\* the contents a record may carry: nothing at all, a well-formed bundle
\* behind a 404 status line, or a bundle behind a 200 status line
LoopPayloads ==
    {<<>>, Payload([pre |-> <<"4", "0", "4", "\n">>, segs |-> Plain(Len(fileNames))])}
        \cup {Payload([pre |-> <<"2", "0", "0", "\n">>, segs |-> sg]) : sg \in LoopSegs}

Records == [type : RecordTypes, id : Ids, data : LoopPayloads]

NotRun == [kind |-> "none", splitData |-> <<>>, read |-> -1]

NoCall == [outcome |-> "none", err |-> "none", opened |-> <<>>,
           closeLog |-> <<>>, decoded |-> <<>>]

NoRecord == [stage |-> "none", type |-> "none", id |-> "none", data |-> <<>>,
             call |-> NoCall]


\* split(b, d), tabulated for the payloads of the record loop
SplitTable == [b \in Builds, d \in LoopPayloads |-> split(b, d)]
splitOf(b, d) == IF d \in LoopPayloads THEN SplitTable[b, d] ELSE split(b, d)

\* convertLevelData from os.Create on (all of it in part_000), with the
\* splitter of program b.  fs maps each id to output/<id>.tar.zst.
convertBody(b, id, d, dec, failAt, fs) ==
    IF failAt = 1 THEN
        [outcome |-> "return", err |-> "io", files |-> fs,
         opened |-> <<>>, closeLog |-> <<>>, decoded |-> <<>>]
    ELSE IF failAt = 2 THEN
        [outcome |-> "return", err |-> "io",
         files |-> [fs EXCEPT ![id] = onDisk(<<>>, runDefers(<<"file">>))],
         opened |-> <<"file">>, closeLog |-> runDefers(<<"file">>), decoded |-> <<>>]
    ELSE
        LET defers == <<"file", "zst", "tar">>
            splitData == splitOf(b, d)
        IN  IF splitData.kind = "exit" THEN
                [outcome |-> "exit", err |-> "none",
                 files |-> [fs EXCEPT ![id] = Created],
                 opened |-> defers, closeLog |-> <<>>, decoded |-> <<>>]
            ELSE IF splitData.kind = "panic" THEN
                [outcome |-> "panic", err |-> "none",
                 files |-> [fs EXCEPT ![id] = onDisk(<<>>, runDefers(defers))],
                 opened |-> defers, closeLog |-> runDefers(defers), decoded |-> <<>>]
            ELSE IF Len(splitData.splitData) # Len(fileNames) THEN
                [outcome |-> "return", err |-> "failed to split data",
                 files |-> [fs EXCEPT ![id] = onDisk(<<>>, runDefers(defers))],
                 opened |-> defers, closeLog |-> runDefers(defers), decoded |-> <<>>]
            ELSE
                LET w == writeEntries(0, splitData.splitData, dec, failAt, <<>>, <<>>)
                IN  [outcome |-> "return", err |-> w.err,
                     files |-> [fs EXCEPT ![id] = onDisk(w.entries, runDefers(defers))],
                     opened |-> defers, closeLog |-> runDefers(defers),
                     decoded |-> w.decoded]

\* src/src/main.go: the status line is read first, and a payload whose
\* status line lacks "200" is passed over with a nil error.
convertLevelData(id, d, dec, failAt, fs) ==
    LET status == ReadLine(d) IN
    IF status.err # "nil" THEN
        [outcome |-> "return", err |-> status.err, files |-> fs,
         opened |-> <<>>, closeLog |-> <<>>, decoded |-> <<>>]
    ELSE IF ~Contains(status.line, <<"2", "0", "0">>) THEN
        [outcome |-> "return", err |-> "nil", files |-> fs,
         opened |-> <<>>, closeLog |-> <<>>, decoded |-> <<>>]
    ELSE convertBody("main.go", id, d, dec, failAt, fs)

\* src/unnamed/part_000: no status line check
convertLevelData_part000(id, d, dec, failAt, fs) ==
    convertBody("part_000", id, d, dec, failAt, fs)

convert(b, id, d, dec, failAt, fs) ==
    IF b = "main.go" THEN convertLevelData(id, d, dec, failAt, fs)
    ELSE convertLevelData_part000(id, d, dec, failAt, fs)

----------------------------------------------------------------------------
(* The splitter run: splitAsh0Bundle applied to one buffer *)

InitLoop ==
    /\ pc = "loop"
    /\ n = 0
    /\ bar = 0
    /\ files = [id \in Ids |-> NoFile]
    /\ last = NoRecord

InitSplit ==
    /\ build \in Builds
    /\ \E p \in Pres, t \in Tails, k \in 0..MaxSegments :
         \E mids \in [1..(IF k = 0 THEN 0 ELSE k - 1) -> MidSegs] :
            parts = IF k = 0 THEN [pre |-> p \o t, segs |-> <<>>]
                    ELSE [pre |-> p, segs |-> Append(mids, t)]
    /\ data = Payload(parts)
    /\ res = NotRun
    /\ InitLoop

\* the call splitAsh0Bundle(data)
Split ==
    /\ res.kind = "none"
    /\ res' = split(build, data)
    /\ UNCHANGED <<build, data, parts, loopVars>>

NextSplit == Split

SpecSplit == InitSplit /\ [][NextSplit]_vars

----------------------------------------------------------------------------
(* The record loop of extract_file (main.go) and of main (part_000) *)

\* a variant of the filter that lets every record through
isResponse_any(rec) == TRUE

\* record.Header.Get("WARC-Type") == "response"
isResponse(rec) == rec.type = "response"

Init ==
    /\ build \in Builds
    /\ data = <<>>
    /\ parts = [pre |-> <<>>, segs |-> <<>>]
    /\ res = NotRun
    /\ InitLoop

noted(stage, rec, call) ==
    [stage |-> stage, type |-> rec.type, id |-> rec.id, data |-> rec.data,
     call |-> call]

\* reader.ReadRecord returns an error (the archive's end): break
ReadRecordEnd ==
    /\ pc = "loop"
    /\ pc' = "done"
    /\ UNCHANGED <<build, splitVars, n, bar, files, last>>

\* a record that is not a response: continue
SkipRecord ==
    /\ pc = "loop" /\ n < MaxRecords
    /\ \E rec \in Records :
        /\ ~isResponse(rec)
        /\ last' = noted("skip", rec, NoCall)
    /\ n' = n + 1
    /\ UNCHANGED <<build, splitVars, pc, bar, files>>

\* url.Parse fails on the response's WARC-Target-URI: log.Fatal
ParseFail ==
    /\ pc = "loop" /\ n < MaxRecords
    /\ \E rec \in Records :
        /\ isResponse(rec)
        /\ last' = noted("parse", rec, NoCall)
    /\ n' = n + 1
    /\ pc' = "fatal"
    /\ UNCHANGED <<build, splitVars, bar, files>>

\* io.ReadAll fails on the response's content: log.Fatal
ReadAllFail ==
    /\ pc = "loop" /\ n < MaxRecords
    /\ \E rec \in Records :
        /\ isResponse(rec)
        /\ last' = noted("read", rec, NoCall)
    /\ n' = n + 1
    /\ pc' = "fatal"
    /\ UNCHANGED <<build, splitVars, bar, files>>

\* a response: convertLevelData(fileName, data); log.Fatal on an error,
\* bar.Add(1) otherwise.  os.Exit and a panic inside the call end the process.
ConvertRecord ==
    /\ pc = "loop" /\ n < MaxRecords
    /\ \E rec \in Records, env \in Envs :
        /\ isResponse(rec)
        /\ \E c \in {convert(build, rec.id, rec.data, env.dec, env.failAt, files)} :
            /\ files' = c.files
            /\ last' = noted("convert", rec,
                             [outcome |-> c.outcome, err |-> c.err, opened |-> c.opened,
                              closeLog |-> c.closeLog, decoded |-> c.decoded])
            /\ pc' = IF c.outcome = "return"
                     THEN (IF c.err = "nil" THEN "loop" ELSE "fatal")
                     ELSE c.outcome
            /\ bar' = IF c.outcome = "return" /\ c.err = "nil" THEN bar + 1 ELSE bar
    /\ n' = n + 1
    /\ UNCHANGED <<build, splitVars>>

Next ==
    \/ ReadRecordEnd
    \/ SkipRecord
    \/ ParseFail
    \/ ReadAllFail
    \/ ConvertRecord

Spec == Init /\ [][Next]_vars

----------------------------------------------------------------------------
(* What the splitter claims speak of, stated on the buffer itself *)

\* a marker occurrence at the 1-based position p of d
MarkerAt(d, p) ==
    /\ p >= 1 /\ p + 3 <= Len(d)
    /\ d[p] = "A" /\ d[p + 1] = "S" /\ d[p + 2] = "H" /\ d[p + 3] = "0"

MarkerPositions(d) == {p \in 1..Len(d) : MarkerAt(d, p)}

HasMarker(d) == MarkerPositions(d) # {}

\* the j-th smallest element of a set of numbers
NthPos(S, j) == CHOOSE p \in S : Cardinality({q \in S : q < p}) = j - 1

\* d ends in 'A', 'AS' or 'ASH'
EndsInMarkerPrefix(d) ==
    \/ Len(d) >= 1 /\ SubSeq(d, Len(d), Len(d)) = <<"A">>
    \/ Len(d) >= 2 /\ SubSeq(d, Len(d) - 1, Len(d)) = <<"A", "S">>
    \/ Len(d) >= 3 /\ SubSeq(d, Len(d) - 2, Len(d)) = <<"A", "S", "H">>

\* the buffer is "ASH0"+X+"ASH0"+Y+"ASH0"+Z+"ASH0"+W with X, Y, Z, W
\* non-empty and marker-free
BundleForm ==
    /\ parts.pre = <<>>
    /\ Len(parts.segs) = 4
    /\ \A j \in 1..4 : parts.segs[j] # <<>> /\ ~HasMarker(parts.segs[j])

Called == res.kind # "none"

\* C2: the scan of splitAsh0Bundle never reads an index >= len(data), for
\* every buffer, those ending in 'A', 'AS' or 'ASH' included.
C2_ScanStaysInBounds == Called => res.read < Len(data)

C5_ReturnsBareSegments ==
    (BundleForm /\ res.kind = "ok") => res.splitData = parts.segs

\* C5 amended: on such a buffer splitAsh0Bundle returns the four segments
\* "ASH0"+X, "ASH0"+Y, "ASH0"+Z, "ASH0"+W, each with its marker, in buffer
\* order; when the buffer ends in 'A', 'AS' or 'ASH' the scan panics instead.
C5_ReturnsMarkedSegments ==
    (BundleForm /\ Called) =>
        IF EndsInMarkerPrefix(data) THEN res.kind = "panic"
        ELSE /\ res.kind = "ok"
             /\ res.splitData = [j \in 1..4 |-> <<"A", "S", "H", "0">> \o parts.segs[j]]

C5_Witness ==
    /\ BundleForm /\ res.kind = "ok"
    /\ \E j \in 1..3 : parts.segs[j] = <<"A", "S", "H">>
    /\ Len(parts.segs[4]) = 3

\* C10: when the buffer holds k >= 1 markers and the scan completes, the
\* result is k segments, the j-th running from the j-th marker to just before
\* the next one (the last to the end of the buffer); together they are the
\* buffer from its first marker on, and the bytes before it are in none.
C10_SegmentsAreMarkerRanges ==
    (Called /\ res.kind # "panic" /\ HasMarker(data)) =>
        LET S == MarkerPositions(data)
            k == Cardinality(S)
            from(j) == NthPos(S, j)
            upto(j) == IF j = k THEN Len(data) ELSE NthPos(S, j + 1) - 1
        IN  /\ res.kind = "ok"
            /\ Len(res.splitData) = k
            /\ \A j \in 1..k : res.splitData[j] = SubSeq(data, from(j), upto(j))
            /\ Concat(res.splitData) = SubSeq(data, from(1), Len(data))
            /\ Len(Concat(res.splitData)) = Len(data) - (from(1) - 1)

C10_Witness ==
    /\ res.kind = "ok"
    /\ Len(res.splitData) >= 3
    /\ parts.pre # <<>>
    /\ \E j \in 1..Len(res.splitData) : res.splitData[j] = <<"A", "S", "H", "0">>

----------------------------------------------------------------------------
(* What the record loop claims speak of *)

\* the latest iteration called convertLevelData
Converted == last.stage = "convert"

\* convertLevelData returned a nil error
Success == Converted /\ last.call.outcome = "return" /\ last.call.err = "nil"

\* the first line of d contains "200"
StatusOK(d) ==
    \E i \in 1..(Len(d) - 2) :
        /\ d[i] = "2" /\ d[i + 1] = "0" /\ d[i + 2] = "0"
        /\ \A j \in 1..(i + 2) : d[j] # "\n"

\* the marker-delimited ranges of d, in buffer order
SegmentsOf(d) ==
    LET S == MarkerPositions(d)
        k == Cardinality(S)
    IN  [j \in 1..k |->
            SubSeq(d, NthPos(S, j), IF j = k THEN Len(d) ELSE NthPos(S, j + 1) - 1)]

\* output/<id>.tar.zst of the latest record holds exactly the four entries,
\* named in the fixed order, the k-th with the size and the content of the
\* decoder's answer for the k-th segment of the payload
ArchiveHoldsDecodedSegments ==
    LET f == files[last.id]
        dec == last.call.decoded
        names == <<"thumbnail0.tnl", "course_data.cdt", "course_data_sub.cdt",
                   "thumbnail1.tnl">>
    IN  /\ f.exists /\ f.flushed
        /\ Len(f.entries) = 4 /\ Len(dec) = 4
        /\ Len(SegmentsOf(last.data)) = 4
        /\ \A k \in 1..4 :
            /\ dec[k].seg = SegmentsOf(last.data)[k]
            /\ ~dec[k].out.isNil
            /\ f.entries[k].name = names[k]
            /\ f.entries[k].size = Len(dec[k].out.bytes)
            /\ f.entries[k].written
            /\ f.entries[k].content = dec[k].out.bytes

C3_SplitErrorKeepsLooping ==
    (Converted /\ last.call.err = "failed to split data") => pc = "loop"

\* C6: a decoder answer that is nil or empty makes convertLevelData return an
\* error, with no archive entry written for that segment.
C6_NilOrEmptyDecodeFails ==
    Converted =>
        \A k \in 1..Len(last.call.decoded) :
            (last.call.decoded[k].out.isNil \/ last.call.decoded[k].out.bytes = <<>>)
                => /\ last.call.err \notin {"nil", "none"}
                   /\ Len(files[last.id].entries) < k

\* C7: for a response whose payload holds no marker, no output file is
\* created or truncated.
C7_NoMarkerNoFile ==
    (Converted /\ ~HasMarker(last.data)) => last.call.opened = <<>>

\* C8: a record whose type is not "response" is skipped: no conversion is
\* attempted, no output file is created or changed, nothing fails, and the
\* loop is ready for the next record.
C8_NonResponseSkipped ==
    [][(n' = n + 1 /\ last'.type # "response") =>
          /\ files' = files
          /\ last'.stage = "skip" /\ last'.call = NoCall
          /\ pc' = "loop" /\ bar' = bar]_vars

C8_Witness ==
    /\ last.stage = "skip" /\ last.type = "request" /\ HasMarker(last.data)
    /\ pc = "loop" /\ n = 2
    /\ \E id \in Ids : files[id].exists

\* C9: on every exit path of convertLevelData taken once the file, the zstd
\* writer and the tar writer exist, the tar writer is closed first, then the
\* zstd writer, then the file.
C9_WritersClosedInOrder ==
    (Converted /\ last.call.opened = <<"file", "zst", "tar">>)
        => last.call.closeLog = <<"tar", "zst", "file">>

====
